---- MODULE Spec2Model ----
(***************************************************************************)
(* Spider: a multithreaded crawler (src/crawler.py), its inverted index    *)
(* (src/indexer.py) and the ranked search over that index (src/search.py). *)
(*                                                                         *)
(* The crawler is modelled at the granularity at which CPython can switch  *)
(* threads: every read or write of the shared queue, visited set and       *)
(* result list is one step of a worker.  A page is abstracted to the list  *)
(* of hrefs it contains; a URL whose fetch fails has no page.              *)
(* The worker pool has at least one thread (spec section 8).               *)
(***************************************************************************)
EXTENDS Integers, Sequences, FiniteSets, TLC

\* ------------------------------------------------------------------ bounds
MaxThreads == 2
MaxPages == 3
MaxRetries == 3

\* ------------------------------------------------------------------ inputs
URLs == {"P", "Q", "R"}
None == "None"

Range(s) == {s[i] : i \in 1..Len(s)}

\* The seed lists a run is given: none, one, a duplicated one, two distinct.
SeedLists == {<<>>, <<"P">>, <<"P", "P">>, <<"P", "Q">>}

\* What fetch_url gives for a URL: an HTML page, abstracted to the hrefs of
\* its <a> tags, or no content (None, after the retries or for non-HTML).
Page(hrefs) == [html |-> TRUE, hrefs |-> hrefs]
NoPage == [html |-> FALSE, hrefs |-> <<>>]

\* The webs a run crawls.
NoLinks == [u \in URLs |-> Page(<<>>)]
Webs ==
    { NoLinks,
      [NoLinks EXCEPT !["P"] = Page(<<"Q", "R">>)],
      [NoLinks EXCEPT !["P"] = Page(<<"Q">>), !["Q"] = Page(<<"R">>)],
      [NoLinks EXCEPT !["P"] = Page(<<"Q">>), !["Q"] = Page(<<"P">>)],
      [NoLinks EXCEPT !["P"] = Page(<<"R">>), !["Q"] = Page(<<"R">>)],
      [NoLinks EXCEPT !["P"] = Page(<<"Q">>), !["Q"] = NoPage],
      [NoLinks EXCEPT !["P"] = NoPage] }

VARIABLES
    seed_urls,     \* Crawler.seed_urls
    max_pages,     \* Crawler.max_pages
    num_threads,   \* Crawler.num_threads
    web,           \* the pages behind fetch_url
    queue,         \* Crawler.queue (FIFO)
    visited,       \* Crawler.visited
    results,       \* Crawler.results
    pc,            \* position of each worker thread
    url,           \* worker local: url
    cursor,        \* worker local: position in doc["outbound_links"]
    runpc,         \* position of Crawler.run
    joined,        \* number of threads Crawler.run has joined
    returned,      \* the list Crawler.run returned
    fetches,       \* number of fetch_url calls made per URL
    index,         \* Indexer.index: token -> list of URLs
    documents,     \* the documents passed to add_document so far, in order
    last,          \* the last call on the index: its argument and result
    retries,       \* fetch_url parameter: retries
    delay,         \* fetch_url parameter: delay (seconds)
    attempt,       \* fetch_url local: attempt
    fpc,           \* position of the fetch_url call
    opened,        \* what each urlopen of the call met, in order
    slept,         \* the time.sleep calls of the call, in order
    fetched,       \* what the call returned
    seed_file,     \* command line: the file --seeds names
    args,          \* command line: --max-pages, --threads, --format
    clipc,         \* position of the run of src/cli.py
    error,         \* the exception raised and not caught, if any
    exit_code      \* the exit status of the interpreter, once it has one

vars == <<seed_urls, max_pages, num_threads, web, queue, visited, results,
          pc, url, cursor, runpc, joined, returned, fetches,
          index, documents, last,
          retries, delay, attempt, fpc, opened, slept, fetched,
          seed_file, args, clipc, error, exit_code>>

inputs == <<seed_urls, max_pages, num_threads, web>>
indexing == <<index, documents, last>>
fetching == <<retries, delay, attempt, fpc, opened, slept, fetched>>
cli == <<seed_file, args, clipc, error, exit_code>>

Workers == 1..num_threads

\* ---------------------------------------------------------- collaborators
\* fetch_url(url): the page, or no content.
fetch_url(u) == web[u]

\* parse_html(url, html): the document; title and text play no part in the
\* crawl and are left out.
parse_html(u, html) == [url |-> u, outbound_links |-> html.hrefs]

\* ---------------------------------------------------------------- Indexer
\* Text is a sequence of characters: letters of both cases, a blank and a
\* digit stand for the classes the tokenizer and the query splitter tell apart.
Lowercase == {"a", "b"}
Uppercase == {"A", "B"}
Whitespace == {" "}
Chars == Lowercase \cup Uppercase \cup Whitespace \cup {"1"}

MaxDocs == 2

DocURLs == {"A", "B"}

\* The texts of the documents: "", "a", "a a", "a b", "B1a", "ab", "a a b".
Texts ==
    { <<>>,
      <<"a">>,
      <<"a", " ", "a">>,
      <<"a", " ", "b">>,
      <<"B", "1", "a">>,
      <<"a", "b">>,
      <<"a", " ", "a", " ", "b">> }

Docs == [url : DocURLs, text : Texts]

\* The queries: "", "a", "A", "a b", "B a", "a a", "a1b", " b ", "ab".
Queries ==
    { <<>>,
      <<"a">>,
      <<"A">>,
      <<"a", " ", "b">>,
      <<"B", " ", "a">>,
      <<"a", " ", "a">>,
      <<"a", "1", "b">>,
      <<" ", "b", " ">>,
      <<"a", "b">> }

\* str.lower()
LowerChar(c) == IF c = "A" THEN "a" ELSE IF c = "B" THEN "b" ELSE c
lower(s) == [i \in 1..Len(s) |-> LowerChar(s[i])]

\* The maximal runs in s of characters of the class K, left to right.
RECURSIVE RunsFrom(_, _, _, _)
RunsFrom(s, K, i, run) ==
    LET flush == IF run = <<>> THEN <<>> ELSE <<run>>
    IN  IF i > Len(s) THEN flush
        ELSE IF s[i] \in K THEN RunsFrom(s, K, i + 1, Append(run, s[i]))
        ELSE flush \o RunsFrom(s, K, i + 1, <<>>)

\* re.findall(r"[a-zA-Z]+", text.lower())
tokenize(text) == RunsFrom(lower(text), Lowercase \cup Uppercase, 1, <<>>)

\* str.split(): the runs of non-whitespace characters
split(s) == RunsFrom(s, Chars \ Whitespace, 1, <<>>)

EmptyIndex == [t \in {} |-> <<>>]

\* Mutant of AddToken: the URL is appended without the membership test.
AddTokenUnchecked(idx, token, u) ==
    LET entry == IF token \in DOMAIN idx THEN idx[token] ELSE <<>>
    IN  [t \in DOMAIN idx \cup {token} |->
            IF t = token THEN Append(entry, u) ELSE idx[t]]

\* Mutant of AddToken: the URL is put at the front of the entry.
AddTokenFront(idx, token, u) ==
    LET entry == IF token \in DOMAIN idx THEN idx[token] ELSE <<>>
    IN  [t \in DOMAIN idx \cup {token} |->
            IF t = token
            THEN IF u \in Range(entry) THEN entry ELSE <<u>> \o entry
            ELSE idx[t]]

\* One round of the loop of add_document: create the entry of a new token,
\* append the URL unless the entry lists it.
AddToken(idx, token, u) ==
    LET entry == IF token \in DOMAIN idx THEN idx[token] ELSE <<>>
    IN  [t \in DOMAIN idx \cup {token} |->
            IF t = token
            THEN IF u \in Range(entry) THEN entry ELSE Append(entry, u)
            ELSE idx[t]]

RECURSIVE AddTokens(_, _, _)
AddTokens(idx, tokens, u) ==
    IF tokens = <<>> THEN idx
    ELSE AddTokens(AddToken(idx, Head(tokens), u), Tail(tokens), u)

\* Indexer.add_document(doc): the index afterwards.
add_document(idx, doc) == AddTokens(idx, tokenize(doc.text), doc.url)

\* Mutant of Indexer_search: the query is looked up as typed.
Indexer_searchExact(idx, query) ==
    IF query \in DOMAIN idx THEN idx[query] ELSE <<>>

\* Indexer.search(query)
Indexer_search(idx, query) ==
    IF lower(query) \in DOMAIN idx THEN idx[lower(query)] ELSE <<>>

\* ----------------------------------------------------------------- search
\* scores[doc] = scores.get(doc, 0) + 1, on a dict that keeps insertion order.
Bump(scores, d) ==
    IF \E i \in 1..Len(scores) : scores[i].doc = d
    THEN [i \in 1..Len(scores) |->
             IF scores[i].doc = d
             THEN [doc |-> d, score |-> scores[i].score + 1]
             ELSE scores[i]]
    ELSE Append(scores, [doc |-> d, score |-> 1])

RECURSIVE ScoreEntry(_, _)
ScoreEntry(scores, entry) ==
    IF entry = <<>> THEN scores
    ELSE ScoreEntry(Bump(scores, Head(entry)), Tail(entry))

RECURSIVE ScoreTerms(_, _, _)
ScoreTerms(idx, terms, scores) ==
    IF terms = <<>> THEN scores
    ELSE IF Head(terms) \notin DOMAIN idx
         THEN ScoreTerms(idx, Tail(terms), scores)
         ELSE ScoreTerms(idx, Tail(terms),
                         ScoreEntry(scores, idx[Head(terms)]))

\* Mutant of InsertByScore: the sort ascending (reverse=True forgotten).
InsertAscending(sorted, x) ==
    LET before == Cardinality({i \in 1..Len(sorted) :
                                  sorted[i].score <= x.score})
    IN  SubSeq(sorted, 1, before) \o <<x>>
            \o SubSeq(sorted, before + 1, Len(sorted))

\* sorted(..., reverse=True) is stable: an element goes behind those already
\* placed whose score is at least its own.
InsertByScore(sorted, x) ==
    LET before == Cardinality({i \in 1..Len(sorted) :
                                  sorted[i].score >= x.score})
    IN  SubSeq(sorted, 1, before) \o <<x>>
            \o SubSeq(sorted, before + 1, Len(sorted))

RECURSIVE SortByScore(_, _)
SortByScore(sorted, rest) ==
    IF rest = <<>> THEN sorted
    ELSE SortByScore(InsertByScore(sorted, Head(rest)), Tail(rest))

\* search(index, query)
search(idx, query) ==
    LET terms == split(lower(query))
        scores == ScoreTerms(idx, terms, <<>>)
        ranked == SortByScore(<<>>, scores)
    IN  [i \in 1..Len(ranked) |-> ranked[i].doc]

\* ------------------------------------------------- calls on the index
NoDoc == [url |-> "", text |-> <<>>]
Call(op, doc, query, out) ==
    [op |-> op, doc |-> doc, query |-> query, out |-> out]

\* Indexer(): an empty index, nothing added, nothing asked.
Indexer ==
    /\ index = EmptyIndex
    /\ documents = <<>>
    /\ last = Call("init", NoDoc, <<>>, <<>>)

AddDocument(doc) ==
    /\ Len(documents) < MaxDocs
    /\ index' = add_document(index, doc)
    /\ documents' = Append(documents, doc)
    /\ last' = Call("add_document", doc, <<>>, <<>>)

Lookup(query) ==
    /\ last' = Call("Indexer.search", NoDoc, query,
                    Indexer_search(index, query))
    /\ UNCHANGED <<index, documents>>

Search(query) ==
    /\ last' = Call("search", NoDoc, query, search(index, query))
    /\ UNCHANGED <<index, documents>>

\* ---------------------------------------------------------------- fetcher
\* One call of fetch_url(url, timeout, retries, delay), step by step.  What
\* urlopen meets at an attempt is the server's choice: an HTML response, a
\* response of another content type, an error of the kind that is retried
\* (HTTPError, URLError, TimeoutError), or any other exception.
Outcomes == {"html", "other", "transient", "unexpected"}
Delays == {1, 2}

\* No call of fetch_url is being followed.
NoFetch ==
    /\ retries = 0
    /\ delay = 0
    /\ attempt = 0
    /\ fpc = "idle"
    /\ opened = <<>>
    /\ slept = <<>>
    /\ fetched = None

\* fetch_url is entered: attempt = 0
FetchCall ==
    /\ retries \in 0..MaxRetries
    /\ delay \in Delays
    /\ attempt = 0
    /\ fpc = "while"
    /\ opened = <<>>
    /\ slept = <<>>
    /\ fetched = None

\* Mutant of MayAttempt: the loop condition off by one.
MayAttemptStrict == attempt < retries

\* while attempt <= retries:
MayAttempt == attempt <= retries

\* The loop condition; after the loop, return None.
While ==
    /\ fpc = "while"
    /\ fpc' = IF MayAttempt THEN "urlopen" ELSE "returned"
    /\ UNCHANGED <<retries, delay, attempt, opened, slept, fetched>>

\* urlopen and the test of the content type: return the body, return None,
\* or an exception, which goes to its except clause.
Urlopen(outcome) ==
    /\ fpc = "urlopen"
    /\ opened' = Append(opened, outcome)
    /\ fpc' = IF outcome = "transient" THEN "except" ELSE "returned"
    /\ fetched' = IF outcome = "html" THEN "html" ELSE None
    /\ UNCHANGED <<retries, delay, attempt, slept>>

\* except (HTTPError, URLError, TimeoutError): time.sleep(delay); attempt += 1
Backoff ==
    /\ fpc = "except"
    /\ slept' = Append(slept, delay)
    /\ attempt' = attempt + 1
    /\ fpc' = "while"
    /\ UNCHANGED <<retries, delay, opened, fetched>>

\* -------------------------------------------------------------------- cli
\* A run of the command line program, python -m <package>.cli: the module
\* body is executed first (its imports, then the definitions), and main()
\* is called from its last line.
Formats == {"json", "csv"}

\* The file --seeds names: missing, or holding a list of URLs.
Missing == [exists |-> FALSE, urls |-> <<>>]
SeedFile(urls) == [exists |-> TRUE, urls |-> urls]

\* The names src/store.py defines.
StoreNames == {"save_as_json", "save_as_csv", "store_results"}

\* The program is not being run.
NoCli ==
    /\ seed_file = Missing
    /\ args = [max_pages |-> 0, threads |-> 1, format |-> "json"]
    /\ clipc = "idle"
    /\ error = None
    /\ exit_code = <<>>

\* The interpreter is started on src/cli.py.
CliStart ==
    /\ seed_file \in {Missing} \cup {SeedFile(urls) : urls \in SeedLists}
    /\ args \in [max_pages : 0..MaxPages, threads : 1..MaxThreads,
                 format : Formats]
    /\ clipc = "import"
    /\ error = None
    /\ exit_code = <<>>

\* The imports of src/cli.py, the last of them
\* from .store import save_results: a name the module does not define
\* raises ImportError, and the rest of the module body (the definitions of
\* load_seed_urls and main, and the call of main) is not executed.
ImportCli ==
    /\ clipc = "import"
    /\ "save_results" \notin StoreNames
    /\ error' = "ImportError"
    /\ clipc' = "raised"
    /\ UNCHANGED <<seed_file, args, exit_code>>

\* An exception nothing catches: the interpreter prints the traceback and
\* exits with status 1.
Uncaught ==
    /\ clipc = "raised"
    /\ exit_code' = <<1>>
    /\ clipc' = "exited"
    /\ UNCHANGED <<seed_file, args, error>>

\* ---------------------------------------------------------------- Crawler
\* Crawler(seed_urls, max_pages, num_threads): the state __init__ leaves.
CrawlerOn(seeds, caps, pools, webs) ==
    /\ seed_urls \in seeds
    /\ max_pages \in caps
    /\ num_threads \in pools
    /\ web \in webs
    /\ queue = seed_urls
    /\ visited = {}
    /\ results = <<>>
    /\ pc = [w \in Workers |-> "new"]
    /\ url = [w \in Workers |-> None]
    /\ cursor = [w \in Workers |-> 0]
    /\ runpc = "start"
    /\ joined = 0
    /\ returned = <<>>
    /\ fetches = [u \in URLs |-> 0]
    /\ Indexer
    /\ NoFetch
    /\ NoCli

Crawler(seeds, pools) == CrawlerOn(seeds, 0..MaxPages, pools, Webs)

Init == Crawler(SeedLists, 1..MaxThreads)

\* run: t.start() for the next thread; after the last one run goes on to join.
StartThread(w) ==
    /\ runpc = "start"
    /\ pc[w] = "new"
    /\ \A v \in Workers : v < w => pc[v] # "new"
    /\ pc' = [pc EXCEPT ![w] = "loop"]
    /\ runpc' = IF w = num_threads THEN "join" ELSE "start"
    /\ UNCHANGED <<cli, fetching, indexing, inputs, queue, visited, results, url, cursor, joined,
                   returned, fetches>>

\* while not self.queue.empty() ...
LoopEmpty(w) ==
    /\ pc[w] = "loop"
    /\ pc' = [pc EXCEPT ![w] = IF queue = <<>> THEN "done" ELSE "cap"]
    /\ UNCHANGED <<cli, fetching, indexing, inputs, queue, visited, results, url, cursor, runpc,
                   joined, returned, fetches>>

\* Mutant of HasRoom: the capacity test off by one.
HasRoomOffByOne == Len(results) <= max_pages

\* ... and len(self.results) < self.max_pages:
HasRoom == Len(results) < max_pages

\* Mutant of LoopCap: the worker goes on whatever the result count is.
LoopCapSkipped(w) ==
    /\ pc[w] = "cap"
    /\ pc' = [pc EXCEPT ![w] = "get"]
    /\ UNCHANGED <<cli, fetching, indexing, inputs, queue, visited, results, url,
                   cursor, runpc, joined, returned, fetches>>

LoopCap(w) ==
    /\ pc[w] = "cap"
    /\ pc' = [pc EXCEPT ![w] = IF HasRoom THEN "get" ELSE "done"]
    /\ UNCHANGED <<cli, fetching, indexing, inputs, queue, visited, results, url, cursor, runpc,
                   joined, returned, fetches>>

\* Mutant of GetNowait: a blocking get, which waits on an empty queue.
GetBlocking(w) ==
    /\ pc[w] = "get"
    /\ queue # <<>>
    /\ url' = [url EXCEPT ![w] = Head(queue)]
    /\ queue' = Tail(queue)
    /\ pc' = [pc EXCEPT ![w] = "seen"]
    /\ UNCHANGED <<cli, fetching, indexing, inputs, visited, results, cursor, runpc, joined,
                   returned, fetches>>

\* url = self.queue.get_nowait(); except queue.Empty: break
GetNowait(w) ==
    /\ pc[w] = "get"
    /\ IF queue = <<>>
       THEN /\ pc' = [pc EXCEPT ![w] = "done"]
            /\ UNCHANGED <<queue, url>>
       ELSE /\ url' = [url EXCEPT ![w] = Head(queue)]
            /\ queue' = Tail(queue)
            /\ pc' = [pc EXCEPT ![w] = "seen"]
    /\ UNCHANGED <<cli, fetching, indexing, inputs, visited, results, cursor, runpc, joined,
                   returned, fetches>>

\* Mutant of CheckVisited: a URL is never taken for visited.
CheckVisitedNever(w) ==
    /\ pc[w] = "seen"
    /\ pc' = [pc EXCEPT ![w] = "mark"]
    /\ UNCHANGED <<cli, fetching, indexing, inputs, queue, visited, results, url,
                   cursor, runpc, joined, returned, fetches>>

\* if url in self.visited: continue
CheckVisited(w) ==
    /\ pc[w] = "seen"
    /\ pc' = [pc EXCEPT ![w] = IF url[w] \in visited THEN "loop" ELSE "mark"]
    /\ UNCHANGED <<cli, fetching, indexing, inputs, queue, visited, results, url, cursor, runpc,
                   joined, returned, fetches>>

\* Mutant of MarkVisited: the URL is not added to visited.
MarkForgotten(w) ==
    /\ pc[w] = "mark"
    /\ pc' = [pc EXCEPT ![w] = "fetch"]
    /\ UNCHANGED <<cli, fetching, indexing, inputs, queue, visited, results, url,
                   cursor, runpc, joined, returned, fetches>>

\* self.visited.add(url)
MarkVisited(w) ==
    /\ pc[w] = "mark"
    /\ visited' = visited \cup {url[w]}
    /\ pc' = [pc EXCEPT ![w] = "fetch"]
    /\ UNCHANGED <<cli, fetching, indexing, inputs, queue, results, url, cursor, runpc, joined,
                   returned, fetches>>

\* Mutant of Fetch: the test of html inverted.
FetchInverted(w) ==
    /\ pc[w] = "fetch"
    /\ fetches' = [fetches EXCEPT ![url[w]] = @ + 1]
    /\ pc' = [pc EXCEPT ![w] = IF fetch_url(url[w]).html THEN "loop"
                                                         ELSE "record"]
    /\ UNCHANGED <<cli, fetching, indexing, inputs, queue, visited, results, url, cursor, runpc,
                   joined, returned>>

\* html = fetch_url(url); if not html: continue
Fetch(w) ==
    /\ pc[w] = "fetch"
    /\ fetches' = [fetches EXCEPT ![url[w]] = @ + 1]
    /\ pc' = [pc EXCEPT ![w] = IF fetch_url(url[w]).html THEN "record"
                                                         ELSE "loop"]
    /\ UNCHANGED <<cli, fetching, indexing, inputs, queue, visited, results, url, cursor, runpc,
                   joined, returned>>

\* doc = parse_html(url, html); self.results.append(doc)
Record(w) ==
    /\ pc[w] = "record"
    /\ results' = Append(results, parse_html(url[w], fetch_url(url[w])))
    /\ cursor' = [cursor EXCEPT ![w] = 1]
    /\ pc' = [pc EXCEPT ![w] = "offer"]
    /\ UNCHANGED <<cli, fetching, indexing, inputs, queue, visited, url, runpc, joined, returned,
                   fetches>>

\* The links of the document worker w is offering.
LinksOf(w) == parse_html(url[w], fetch_url(url[w])).outbound_links

\* for link in doc.get("outbound_links", []): the next link, or the end of
\* the loop, where self.queue.task_done() is called (it changes nothing the
\* crawl reads) and the worker goes back to the while condition.
OfferNext(w) ==
    /\ pc[w] = "offer"
    /\ IF cursor[w] > Len(LinksOf(w))
       THEN /\ pc' = [pc EXCEPT ![w] = "loop"]
            /\ cursor' = [cursor EXCEPT ![w] = 0]
       ELSE /\ pc' = [pc EXCEPT ![w] = "offer_cap"]
            /\ UNCHANGED cursor
    /\ UNCHANGED <<cli, fetching, indexing, inputs, queue, visited, results, url, runpc, joined,
                   returned, fetches>>

\* if len(self.results) < self.max_pages ...
OfferCap(w) ==
    /\ pc[w] = "offer_cap"
    /\ IF HasRoom
       THEN /\ pc' = [pc EXCEPT ![w] = "offer_seen"]
            /\ UNCHANGED cursor
       ELSE /\ pc' = [pc EXCEPT ![w] = "offer"]
            /\ cursor' = [cursor EXCEPT ![w] = @ + 1]
    /\ UNCHANGED <<cli, fetching, indexing, inputs, queue, visited, results, url, runpc, joined,
                   returned, fetches>>

\* ... and link not in self.visited:
OfferSeen(w) ==
    /\ pc[w] = "offer_seen"
    /\ IF LinksOf(w)[cursor[w]] \notin visited
       THEN /\ pc' = [pc EXCEPT ![w] = "offer_put"]
            /\ UNCHANGED cursor
       ELSE /\ pc' = [pc EXCEPT ![w] = "offer"]
            /\ cursor' = [cursor EXCEPT ![w] = @ + 1]
    /\ UNCHANGED <<cli, fetching, indexing, inputs, queue, visited, results, url, runpc, joined,
                   returned, fetches>>

\* self.queue.put(link)
OfferPut(w) ==
    /\ pc[w] = "offer_put"
    /\ queue' = Append(queue, LinksOf(w)[cursor[w]])
    /\ cursor' = [cursor EXCEPT ![w] = @ + 1]
    /\ pc' = [pc EXCEPT ![w] = "offer"]
    /\ UNCHANGED <<cli, fetching, indexing, inputs, visited, results, url, runpc, joined, returned,
                   fetches>>

\* Mutant of Join: run does not wait for the thread to end.
JoinNoWait(w) ==
    /\ runpc = "join"
    /\ w = joined + 1
    /\ joined' = w
    /\ UNCHANGED <<cli, fetching, indexing, inputs, queue, visited, results, pc, url, cursor, runpc,
                   returned, fetches>>

\* run: t.join() returns for the next thread once its worker has ended.
Join(w) ==
    /\ runpc = "join"
    /\ w = joined + 1
    /\ pc[w] = "done"
    /\ joined' = w
    /\ UNCHANGED <<cli, fetching, indexing, inputs, queue, visited, results, pc, url, cursor, runpc,
                   returned, fetches>>

\* run: return self.results
Return ==
    /\ runpc = "join"
    /\ joined = num_threads
    /\ runpc' = "returned"
    /\ returned' = results
    /\ UNCHANGED <<cli, fetching, indexing, inputs, queue, visited, results, pc, url, cursor, joined,
                   fetches>>

WorkerStep(w) ==
    \/ LoopEmpty(w)
    \/ LoopCap(w)
    \/ GetNowait(w)
    \/ CheckVisited(w)
    \/ MarkVisited(w)
    \/ Fetch(w)
    \/ Record(w)
    \/ OfferNext(w)
    \/ OfferCap(w)
    \/ OfferSeen(w)
    \/ OfferPut(w)

RunStep ==
    \/ \E w \in Workers : StartThread(w)
    \/ \E w \in Workers : Join(w)
    \/ Return

Next ==
    \/ \E w \in Workers : WorkerStep(w)
    \/ RunStep

Spec == Init /\ [][Next]_vars

\* While some thread has a step to take, the scheduler lets a thread take
\* one.  No step of a thread waits for another thread except t.join(), so
\* this is less than fairness to each thread and is what the interpreter's
\* scheduling gives.
Fairness == WF_vars(Next)

FairSpec == Spec /\ Fairness

\* K distinct seeds raced for by K + 1 workers.
InitContention ==
    \E s \in {<<"P">>, <<"P", "Q">>} : Crawler({s}, {Len(s) + 1})

ContentionSpec == InitContention /\ [][Next]_vars

\* A seed given twice, on a web where it links to the two other pages, with
\* a cap above the number of URLs there are.
InitDuplicateSeed ==
    CrawlerOn({<<"P", "P">>}, {Cardinality(URLs) + 1}, 1..MaxThreads,
              {[NoLinks EXCEPT !["P"] = Page(<<"Q", "R">>)]})

DuplicateSeedSpec == InitDuplicateSeed /\ [][Next]_vars

\* The index on its own: documents are added and the index is queried, in
\* any order, by one thread; no crawl is running.
crawl == <<inputs, queue, visited, results, pc, url, cursor, runpc, joined,
           returned, fetches>>

NoCrawl ==
    /\ seed_urls = <<>>
    /\ max_pages = 0
    /\ num_threads = 1
    /\ web = NoLinks
    /\ queue = <<>>
    /\ visited = {}
    /\ results = <<>>
    /\ pc = [w \in Workers |-> "new"]
    /\ url = [w \in Workers |-> None]
    /\ cursor = [w \in Workers |-> 0]
    /\ runpc = "start"
    /\ joined = 0
    /\ returned = <<>>
    /\ fetches = [u \in URLs |-> 0]

IndexInit == NoCrawl /\ Indexer /\ NoFetch /\ NoCli

IndexNext ==
    \/ \E doc \in Docs : AddDocument(doc) /\ UNCHANGED <<crawl, fetching, cli>>
    \/ \E query \in Queries : Lookup(query) /\ UNCHANGED <<crawl, fetching, cli>>
    \/ \E query \in Queries : Search(query) /\ UNCHANGED <<crawl, fetching, cli>>

IndexSpec == IndexInit /\ [][IndexNext]_vars

\* One call of fetch_url on its own: no crawl is running, the index is idle.
FetchInit == NoCrawl /\ Indexer /\ FetchCall /\ NoCli

FetchNext ==
    \/ While /\ UNCHANGED <<crawl, indexing, cli>>
    \/ \E outcome \in Outcomes : Urlopen(outcome) /\ UNCHANGED <<crawl, indexing, cli>>
    \/ Backoff /\ UNCHANGED <<crawl, indexing, cli>>

FetchSpec == FetchInit /\ [][FetchNext]_vars

\* The command line program on its own.
CliInit == NoCrawl /\ Indexer /\ NoFetch /\ CliStart

CliNext ==
    \/ ImportCli /\ UNCHANGED <<crawl, indexing, fetching>>
    \/ Uncaught /\ UNCHANGED <<crawl, indexing, fetching>>

CliSpec == CliInit /\ [][CliNext]_vars

\* ================================================================ claims
AllFetchable == \A u \in URLs : web[u].html
Distinct(s) == \A i, j \in 1..Len(s) : s[i] = s[j] => i = j
DocOf(u) == parse_html(u, fetch_url(u))

\* C1 (as claimed): the number of recorded documents never exceeds max_pages,
\* in any state of a run and in the list run returns.
C1_CapInvariant ==
    /\ Len(results) <= max_pages
    /\ runpc = "returned" => Len(returned) <= max_pages

\* C2 (as claimed): fetch_url is called at most once per URL.
C2_NoDuplicateVisits == \A u \in URLs : fetches[u] <= 1

\* C3 (as claimed): with K pairwise distinct seeds, more than K workers and a
\* page budget that admits every seed, no seed is passed to the fetcher twice,
\* and when run returns every seed has been passed to it once.
C3_ExactlyOneDispatch ==
    (Distinct(seed_urls) /\ num_threads > Len(seed_urls)
                         /\ max_pages >= Len(seed_urls))
    => \A u \in Range(seed_urls) :
          /\ fetches[u] <= 1
          /\ runpc = "returned" => fetches[u] = 1

\* C4: when run has returned, every worker has ended (none holds a claimed
\* URL), the queue is empty or the result count has reached max_pages, and,
\* unless the cap was reached, every link of every recorded document has
\* been dequeued and marked visited.
C4_QuiescenceAtReturn ==
    runpc = "returned" =>
        /\ \A w \in Workers : pc[w] = "done"
        /\ queue = <<>> \/ Len(results) >= max_pages
        /\ \/ Len(results) >= max_pages
           \/ \A i \in 1..Len(results) :
                 Range(results[i].outbound_links) \subseteq visited

\* C4 witness: run returned, below the cap, from a crawl started from P alone
\* by two workers, with the page Q found behind P recorded as well.
C4_Witness ==
    /\ runpc = "returned"
    /\ num_threads = 2
    /\ seed_urls = <<"P">>
    /\ Len(returned) < max_pages
    /\ {returned[i].url : i \in 1..Len(returned)} = {"P", "Q"}

\* The work a run has left, as a number: what a worker needs to get back to
\* the while condition and from there to its exit, four steps for every
\* queued URL (loop test, cap test, get, visited test), eight for every link
\* still to be offered (four steps and a queued URL), a whole round of the
\* loop (of a page of two links, the most a page of Webs has) for every
\* worker that can still find a URL unvisited, and the joins and the return
\* of run.
RoundCost == 8 * 2 + 7
LinksLeft(w) == Len(LinksOf(w)) - cursor[w] + 1
WorkerCost(w) ==
    CASE pc[w] = "new" -> 4
      [] pc[w] = "loop" -> 3
      [] pc[w] = "cap" -> 2
      [] pc[w] = "get" -> 1
      [] pc[w] = "seen" -> 4
      [] pc[w] = "mark" -> RoundCost
      [] pc[w] = "fetch" -> RoundCost - 1
      [] pc[w] = "record" -> RoundCost - 2
      [] pc[w] = "offer" -> 8 * LinksLeft(w) + 4
      [] pc[w] = "offer_cap" -> 8 * LinksLeft(w) + 3
      [] pc[w] = "offer_seen" -> 8 * LinksLeft(w) + 2
      [] pc[w] = "offer_put" -> 8 * LinksLeft(w) + 1
      [] pc[w] = "done" -> 0
RECURSIVE WorkersCost(_)
WorkersCost(n) == IF n = 0 THEN 0 ELSE WorkerCost(n) + WorkersCost(n - 1)
\* The number of pairs of an unvisited URL and a worker that is not about to
\* mark it.
CanStillClaim ==
    Cardinality(URLs \ visited) * num_threads
        - Cardinality({w \in Workers :
                          pc[w] = "mark" /\ url[w] \notin visited})
Rank ==
    RoundCost * CanStillClaim
        + 4 * Len(queue)
        + WorkersCost(num_threads)
        + (num_threads - joined)
        + (IF runpc = "returned" THEN 0 ELSE 1)

\* C5: every run ends under any fair scheduling: until run has returned some
\* thread has a step to take, every step lowers the natural number Rank, and
\* run returns, with all workers ended, the accumulated results.
C5_Terminates ==
    /\ [](runpc = "returned" \/ ENABLED Next)
    /\ [](Rank \in Nat)
    /\ [][Rank' < Rank]_vars
    /\ [](runpc = "returned" =>
             /\ \A w \in Workers : pc[w] = "done"
             /\ returned = results)

\* C5 witness: a run that crawled pages with two workers has returned.
C5_Witness ==
    /\ runpc = "returned"
    /\ num_threads = 2
    /\ Len(returned) >= 2
    /\ \E u \in URLs : ~web[u].html /\ fetches[u] > 0

\* C6 (as claimed): from the single seed P, whose page links to at least
\* max_pages - 1 other pages, with every fetch succeeding, run returns exactly
\* max_pages documents, the first of them P's.
C6_CapSaturation ==
    (/\ runpc = "returned"
     /\ seed_urls = <<"P">>
     /\ AllFetchable
     /\ Cardinality(Range(web["P"].hrefs) \ {"P"}) >= max_pages - 1)
    => /\ Len(returned) = max_pages
       /\ max_pages >= 1 => returned[1].url = "P"

\* C7: an empty seed list gives an empty result list, and with max_pages = 0
\* nothing is dequeued, marked or fetched and the result list is empty.
C7_EdgePolicy ==
    /\ seed_urls = <<>> => results = <<>> /\ returned = <<>>
    /\ max_pages = 0 =>
          /\ results = <<>> /\ returned = <<>>
          /\ queue = seed_urls
          /\ visited = {}
          /\ \A u \in URLs : fetches[u] = 0

\* C7 witness: run returned from a crawl with seeds and a cap of zero.
C7_Witness ==
    /\ runpc = "returned"
    /\ max_pages = 0
    /\ seed_urls # <<>>
    /\ num_threads = 2

\* C8: from the single seed P, whose fetch succeeds and whose page has no
\* links, with max_pages >= 1, a run goes on until run returns (C5: it does),
\* and run returns exactly [doc(P)].
C8_SinglePage ==
    (seed_urls = <<"P">> /\ web["P"] = Page(<<>>) /\ max_pages >= 1)
    => /\ runpc = "returned" \/ ENABLED Next
       /\ runpc = "returned" => returned = <<DocOf("P")>>
       /\ results \in {<<>>, <<DocOf("P")>>}

\* C8 witness: such a run by two workers has returned the one document.
C8_Witness ==
    /\ seed_urls = <<"P">> /\ web["P"] = Page(<<>>) /\ max_pages >= 1
    /\ num_threads = 2
    /\ runpc = "returned"
    /\ returned = <<[url |-> "P", outbound_links |-> <<>>]>>

\* C9: no entry of the index lists a URL twice, and adding a document that
\* was added before leaves the index as it was.
C9_IndexIdempotence ==
    /\ [](\A t \in DOMAIN index : Distinct(index[t]))
    /\ [][(last'.op = "add_document" /\ last'.doc \in Range(documents))
            => index' = index]_vars

\* C9 witness: a document whose text repeats a token has been added twice,
\* and the token's entry lists its URL once.
C9_Witness ==
    /\ last.op = "add_document"
    /\ documents = <<last.doc, last.doc>>
    /\ last.doc.text = <<"a", " ", "a", " ", "b">>
    /\ index[<<"a">>] = <<last.doc.url>>

\* The terms of the last query, and what the index says about a document.
Terms == split(lower(last.query))
Contributions(d) ==
    {i \in 1..Len(Terms) :
        Terms[i] \in DOMAIN index /\ d \in Range(index[Terms[i]])}
Score(d) == Cardinality(Contributions(d))
Least(S) == CHOOSE x \in S : \A y \in S : x <= y
PositionIn(s, x) == Least({j \in 1..Len(s) : s[j] = x})
\* d received its first score contribution before e did.
ScoredBefore(d, e) ==
    LET i == Least(Contributions(d))
        j == Least(Contributions(e))
    IN  \/ i < j
        \/ i = j /\ PositionIn(index[Terms[i]], d)
                       < PositionIn(index[Terms[j]], e)

\* C10: search returns, each once, exactly the documents listed under some
\* query term, by descending number of query terms listing them, documents of
\* equal score in the order of their first score contribution; with "a"
\* listing A and B and "b" listing B only, the query "a b" gives [B, A].
C10_RankedSearch ==
    last.op = "search" =>
        LET out == last.out
        IN  /\ Range(out) = {d \in DocURLs : Contributions(d) # {}}
            /\ Distinct(out)
            /\ \A i, j \in 1..Len(out) :
                  i < j =>
                     \/ Score(out[i]) > Score(out[j])
                     \/ /\ Score(out[i]) = Score(out[j])
                        /\ ScoredBefore(out[i], out[j])
            /\ (/\ Terms = << <<"a">>, <<"b">> >>
                /\ DOMAIN index = {<<"a">>, <<"b">>}
                /\ Range(index[<<"a">>]) = {"A", "B"}
                /\ Range(index[<<"b">>]) = {"B"})
               => out = <<"B", "A">>

\* C10 witness: A was indexed before B, and the query "a b" ranks B first.
C10_Witness ==
    /\ last.op = "search"
    /\ last.query = <<"a", " ", "b">>
    /\ DOMAIN index = {<<"a">>, <<"b">>}
    /\ index[<<"a">>] = <<"A", "B">>
    /\ index[<<"b">>] = <<"B">>
    /\ last.out = <<"B", "A">>

\* The characters a token is made of, in either case.
Letters == Lowercase \cup Uppercase
\* The token t stands in the text: some stretch of the text reads t when
\* lowercased and has no letter right before it or right after it.
ContainsToken(text, t) ==
    \E i \in 1..Len(text) : \E j \in i..Len(text) :
        /\ lower(SubSeq(text, i, j)) = t
        /\ i = 1 \/ text[i - 1] \notin Letters
        /\ j = Len(text) \/ text[j + 1] \notin Letters
\* The URLs of the documents among the first n added whose text contains t,
\* each once, in the order in which they were first added with t.
RECURSIVE FirstAdded(_, _)
FirstAdded(t, n) ==
    IF n = 0 THEN <<>>
    ELSE LET before == FirstAdded(t, n - 1)
             doc == documents[n]
         IN  IF ContainsToken(doc.text, t) /\ doc.url \notin Range(before)
             THEN Append(before, doc.url)
             ELSE before

\* C11: Indexer.search(q), for q a token in any letter case, returns exactly
\* the URLs of the added documents whose text contains the token, in the
\* order in which they were first added for it, and the empty sequence when
\* no added document contains it.
C11_Lookup ==
    (/\ last.op = "Indexer.search"
     /\ last.query # <<>>
     /\ Range(last.query) \subseteq Letters)
    => /\ last.out = FirstAdded(lower(last.query), Len(documents))
       /\ (\A i \in 1..Len(documents) :
              ~ContainsToken(documents[i].text, lower(last.query)))
          => last.out = <<>>

\* C11 witness: B was added before A, both with the token "a" (A's text is
\* "B1a"), and the lookup of "A" gives [B, A].
C11_Witness ==
    /\ last.op = "Indexer.search"
    /\ last.query = <<"A">>
    /\ documents = <<[url |-> "B", text |-> <<"a", " ", "b">>],
                     [url |-> "A", text |-> <<"B", "1", "a">>]>>
    /\ last.out = <<"B", "A">>

\* C12: fetch_url never makes more than retries + 1 attempts; a response,
\* HTML or not, ends the call on that attempt (with the body, or with
\* nothing); it has slept the same delay once after each transient failure;
\* and when every attempt failed with a transient error the call has made
\* exactly retries + 1 attempts and reports failure.
C12_RetryBound ==
    /\ Len(opened) <= retries + 1
    /\ \A i \in 1..Len(opened) :
          opened[i] # "transient" => i = Len(opened) /\ fpc = "returned"
    /\ slept = [i \in 1..Len(slept) |-> delay]
    /\ Len(slept) = Cardinality({i \in 1..Len(opened) : opened[i] = "transient"})
                        - (IF fpc = "except" THEN 1 ELSE 0)
    /\ fpc = "returned" =>
          /\ fetched = "html" <=> (opened # <<>> /\ opened[Len(opened)] = "html")
          /\ fetched # "html" => fetched = None
          /\ (\A i \in 1..Len(opened) : opened[i] = "transient")
             => /\ Len(opened) = retries + 1
                /\ Len(slept) = retries + 1
                /\ fetched = None

\* C12 witness: with retries = 2 every attempt failed with a transient
\* error, and the call returned nothing after three attempts.
C12_Witness ==
    /\ fpc = "returned"
    /\ retries = 2
    /\ opened = <<"transient", "transient", "transient">>
    /\ slept = <<delay, delay, delay>>
    /\ fetched = None

\* C13 (as claimed): with the seed file missing the program exits with code
\* 1 and no crawler has been constructed or run; with the seed file present
\* the program completes with exit code 0, without an exception.
C13_CliOutcome ==
    clipc = "exited" =>
        /\ ~seed_file.exists => exit_code = <<1>> /\ NoCrawl
        /\ seed_file.exists => exit_code = <<0>> /\ error = None

\* A worker is in flight while it holds a URL it has dequeued; the frontier
\* is quiescent when the queue is empty and no worker is in flight.
InFlight(w) ==
    pc[w] \in {"seen", "mark", "fetch", "record",
               "offer", "offer_cap", "offer_seen", "offer_put"}
Quiescent == queue = <<>> /\ \A w \in Workers : ~InFlight(w)

\* C14 (as claimed): a worker has stopped only if the cap is reached or the
\* frontier is quiescent; a worker that found the queue empty while another
\* worker was in flight is still there to claim what that worker enqueues.
C14_IdleWorkersStay ==
    \A w \in Workers :
        pc[w] = "done" => (Len(results) >= max_pages \/ Quiescent)

\* C15 (as claimed): once the result count has reached max_pages, no step
\* takes a URL off the queue and no step calls fetch_url.
C15_SaturatedClaim ==
    [][Len(results) >= max_pages =>
          /\ Len(queue') >= Len(queue)
          /\ fetches' = fetches]_vars

\* The number of copies of u on the queue q.
Copies(q, u) == Cardinality({i \in 1..Len(q) : q[i] = u})
IsPrefix(s, t) == Len(s) <= Len(t) /\ SubSeq(t, 1, Len(s)) = s

\* C16 (as claimed): no step puts a URL that has been claimed (is in
\* visited) on the queue, removes a URL from visited, or removes or moves a
\* document of results.
C16_UrlStateMachine ==
    [][/\ \A u \in visited : Copies(queue', u) <= Copies(queue, u)
       /\ visited \subseteq visited'
       /\ IsPrefix(results, results')]_vars

\* C17 (as claimed): a URL whose fetch gives no content is fetched at most
\* once in a run, stays in visited once it was fetched, and has no document
\* in results.
C17_DroppedUrl ==
    \A u \in URLs :
        ~fetch_url(u).html =>
            /\ fetches[u] <= 1
            /\ fetches[u] >= 1 => u \in visited
            /\ \A i \in 1..Len(results) : results[i].url # u

\* C18 (as claimed): a step that puts a link on the queue finds, at that
\* moment, the link outside visited and the result count below max_pages.
C18_LinkOffering ==
    [][Len(queue') > Len(queue) =>
          /\ queue'[Len(queue')] \notin visited
          /\ Len(results) < max_pages]_vars

\* C19: the URL of every document in results is in visited, and so is the
\* URL of the document a worker is about to record.
C19_ResultsVisited ==
    /\ \A i \in 1..Len(results) : results[i].url \in visited
    /\ \A w \in Workers : pc[w] = "record" => url[w] \in visited

\* C19 witness: two workers have each recorded a document, and one of them
\* is about to record a third.
C19_Witness ==
    /\ num_threads = 2
    /\ Len(results) = 2
    /\ results[1].url # results[2].url
    /\ \E w \in Workers : pc[w] = "record" /\ url[w] = "R"

\* The entry of t in the index idx, empty when idx has no such token.
EntryOf(idx, t) == IF t \in DOMAIN idx THEN idx[t] ELSE <<>>

\* C20: add_document(doc) removes no token, leaves every entry a prefix of
\* what it becomes, leaves alone (and does not create) the entry of a token
\* that doc's text does not contain, and changes the entry of a token the
\* text contains at most by appending doc's URL; nothing else changes the
\* index.
C20_AppendOnly ==
    [][IF last'.op = "add_document"
       THEN LET doc == last'.doc
            IN  /\ DOMAIN index \subseteq DOMAIN index'
                /\ \A t \in DOMAIN index : IsPrefix(index[t], index'[t])
                /\ \A t \in DOMAIN index' :
                      IF ContainsToken(doc.text, t)
                      THEN index'[t] \in {EntryOf(index, t),
                                          Append(EntryOf(index, t), doc.url)}
                      ELSE t \in DOMAIN index /\ index'[t] = index[t]
       ELSE index' = index]_vars

\* C20 witness: after A ("a b") and B ("a"), B stands behind A under "a"
\* and the entry of "b" is as it was.
C20_Witness ==
    /\ last.op = "add_document"
    /\ documents = <<[url |-> "A", text |-> <<"a", " ", "b">>],
                     [url |-> "B", text |-> <<"a">>]>>
    /\ index[<<"a">>] = <<"A", "B">>
    /\ index[<<"b">>] = <<"A">>

\* A worker has room granted while it is between a capacity test that it
\* passed and the append (or the end of the round) that follows it.
Granted(w) == pc[w] \in {"get", "seen", "mark", "fetch", "record"}

\* C21: with max_pages >= 1 the number of recorded documents never exceeds
\* max_pages + num_threads - 1, in any state and in the list run returns;
\* more precisely the documents recorded beyond max_pages - 1, together with
\* the workers that passed the capacity test and have not appended yet, are
\* never more than the workers.
C21_OvershootBound ==
    max_pages >= 1 =>
        /\ Len(results) <= max_pages + num_threads - 1
        /\ Len(returned) <= max_pages + num_threads - 1
        /\ Len(results) >= max_pages =>
              Len(results) - (max_pages - 1)
                  + Cardinality({w \in Workers : Granted(w)}) <= num_threads

\* C21 witness: two workers, a cap of one, and two documents returned: the
\* bound is met.
C21_Witness ==
    /\ num_threads = 2
    /\ max_pages = 1
    /\ runpc = "returned"
    /\ Len(returned) = max_pages + num_threads - 1

\* The URLs reachable from the set S through the outbound links of the
\* pages whose fetch succeeds.
RECURSIVE ReachFrom(_)
ReachFrom(S) ==
    LET T == S \cup UNION {Range(fetch_url(u).hrefs) :
                              u \in {v \in S : fetch_url(v).html}}
    IN  IF T = S THEN S ELSE ReachFrom(T)
Reachable == ReachFrom(Range(seed_urls))
ReturnedURLs == {returned[i].url : i \in 1..Len(returned)}

\* C22 (as claimed): when max_pages is greater than the number of URLs
\* reachable from the seeds, the URLs of the documents run returns are
\* exactly the reachable URLs whose fetch succeeds.
C22_Completeness ==
    (runpc = "returned" /\ max_pages > Cardinality(Reachable))
    => ReturnedURLs = {u \in Reachable : fetch_url(u).html}

\* C23: with a single worker, whatever the seeds, the web and the cap, every
\* URL is fetched at most once, results holds at most one document per URL,
\* and the result count never exceeds max_pages; the same goes for the list
\* run returns.
C23_SingleWorker ==
    num_threads = 1 =>
        /\ \A u \in URLs : fetches[u] <= 1
        /\ \A i, j \in 1..Len(results) :
              results[i].url = results[j].url => i = j
        /\ Len(results) <= max_pages
        /\ runpc = "returned" => returned = results

\* C23 witness: a single worker, given the seed P twice on a web where more
\* pages are reachable than the cap admits, has returned max_pages documents
\* and left a URL on the queue.
C23_Witness ==
    /\ num_threads = 1
    /\ seed_urls = <<"P", "P">>
    /\ runpc = "returned"
    /\ max_pages = 2
    /\ Len(returned) = max_pages
    /\ fetches["P"] = 1
    /\ queue # <<>>

====
